---- MODULE Spec2Model ----
(***************************************************************************)
(* Product catalog backend: the products / categories / product_categories *)
(* tables and the HTTP handlers getProducts, addProduct, editProduct,      *)
(* deleteProduct and addCategory that read and write them.                 *)
(*                                                                         *)
(* Strings are sequences of one-character strings, so that lower-casing,   *)
(* substring search and LIKE patterns are computed and not assumed.        *)
(***************************************************************************)
EXTENDS Integers, Sequences, FiniteSets, TLC

\* ---------------------------------------------------------------- bounds
\* products.id is a serial: the model stops inserting after this many ids.
MaxProductId == 2
\* longest categoryIds array a request carries.
MaxLen == 2
\* the clock (now(), new Date()) runs from 0 to MaxTime.
MaxTime == 1

\* ------------------------------------------------------- request inputs
\* a field the request does not carry (undefined after destructuring).
Absent == -1

ProductNames == { <<"a">>, <<"A">>, <<"\\">> }
\* <<>> is the empty or missing string: both are falsy in every test the
\* handlers make on them.
NameInputs == ProductNames \cup { <<>> }
SearchInputs == { <<>>, <<"a">>, <<"_">>, <<"\\">> }
PriceInputs == { Absent, 0, 5 }
CategoryNameInputs == { <<>>, <<"e">>, <<"F", " ", "c">> }
CategoryIdInputs == 1 .. 2
ProductIdInputs == 1 .. MaxProductId

RECURSIVE SeqsUpTo(_, _)
SeqsUpTo(S, n) ==
    IF n = 0 THEN { <<>> }
    ELSE LET shorter == SeqsUpTo(S, n - 1)
         IN  shorter \cup { Append(s, x) : s \in shorter, x \in S }

CategoryIdLists == SeqsUpTo(CategoryIdInputs, MaxLen)

Range(s) == { s[i] : i \in DOMAIN s }

\* ------------------------------------------------------------- strings
Lower(c) ==
    CASE c = "A" -> "a"
      [] c = "B" -> "b"
      [] c = "C" -> "c"
      [] c = "E" -> "e"
      [] c = "F" -> "f"
      [] OTHER -> c

toLowerCase(s) == [i \in 1 .. Len(s) |-> Lower(s[i])]

\* s.split(sep).join(by) for a one-character separator
SplitJoin(s, sep, by) == [i \in 1 .. Len(s) |-> IF s[i] = sep THEN by ELSE s[i]]

\* s.split(sep).length
SplitLength(s, sep) == Cardinality({ i \in 1 .. Len(s) : s[i] = sep }) + 1

RECURSIVE TrimStart(_)
TrimStart(s) == IF s # <<>> /\ Head(s) = " " THEN TrimStart(Tail(s)) ELSE s

RECURSIVE TrimEnd(_)
TrimEnd(s) ==
    IF s # <<>> /\ s[Len(s)] = " " THEN TrimEnd(SubSeq(s, 1, Len(s) - 1)) ELSE s

trim(s) == TrimEnd(TrimStart(s))

\* JavaScript null, as a name
Null == << "null" >>

reformatCategoryNameInput(name) ==
    IF name = <<>> THEN Null
    ELSE LET lowerCaseName == toLowerCase(name)
         IN  IF SplitLength(lowerCaseName, " ") >= 2
             THEN trim(SplitJoin(lowerCaseName, " ", "_"))
             ELSE lowerCaseName

reformatCategoryNameResponse(name) ==
    IF name = <<>> THEN Null
    ELSE LET lowerCaseName == toLowerCase(name)
         IN  IF SplitLength(lowerCaseName, "_") >= 2
             THEN trim(SplitJoin(lowerCaseName, "_", " "))
             ELSE lowerCaseName

\* PostgreSQL LIKE on already lower-cased operands: % matches any run of
\* characters, _ matches exactly one, and a backslash makes the character
\* after it stand for itself. (A pattern that ends in a lone backslash is an
\* error; `%${search}%` ends in %, and no input here ends in two
\* backslashes.)
RECURSIVE LikeMatch(_, _)
LikeMatch(s, p) ==
    IF p = <<>> THEN s = <<>>
    ELSE IF Head(p) = "%"
         THEN LikeMatch(s, Tail(p)) \/ (s # <<>> /\ LikeMatch(Tail(s), p))
    ELSE IF Head(p) = "_"
         THEN s # <<>> /\ LikeMatch(Tail(s), Tail(p))
    ELSE IF Head(p) = "\\"
         THEN /\ Len(p) >= 2
              /\ s # <<>>
              /\ Head(s) = p[2]
              /\ LikeMatch(Tail(s), Tail(Tail(p)))
    ELSE s # <<>> /\ Head(s) = Head(p) /\ LikeMatch(Tail(s), Tail(p))

\* ilike(column, `%${search}%`)
ilike(value, search) ==
    LikeMatch(toLowerCase(value), <<"%">> \o toLowerCase(search) \o <<"%">>)

\* ------------------------------------------------------------ the store
VARIABLES
    products,           \* rows of table products
    categories,         \* rows of table categories
    productCategories,  \* rows of table product_categories
    productsSeq,        \* next value of the serial products.id
    categoriesSeq,      \* next value of the serial categories.id
    now,                \* the clock
    last,               \* the request being answered and its response
    pending             \* per client: the handler running for it, between
                        \* two of its awaits

tables == <<products, categories, productCategories>>
store == <<products, categories, productCategories, productsSeq, categoriesSeq>>
vars == <<products, categories, productCategories, productsSeq, categoriesSeq,
          now, last, pending>>

\* the database as one value
Db == [products |-> products, categories |-> categories,
       productCategories |-> productCategories,
       productsSeq |-> productsSeq, categoriesSeq |-> categoriesSeq]

\* ------------------------------------------------- statements of a tx
\* A transaction in progress is [ok, db]: ok turns FALSE at the first
\* statement the database rejects, and db is what the statements wrote so
\* far.
Begin(db) == [ok |-> TRUE, db |-> db]

Failed(t) == [t EXCEPT !.ok = FALSE]

\* (mutant) products.name without its UNIQUE constraint on INSERT
InsertProductNoUnique(t, name, price, time) ==
    LET id == t.db.productsSeq
        taken == [t EXCEPT !.db.productsSeq = id + 1]
        row == [id |-> id, name |-> name, price |-> price,
                createdAt |-> time, updatedAt |-> time]
    IN  IF ~t.ok THEN t
        ELSE IF price = Absent THEN Failed(taken)
        ELSE [taken EXCEPT !.db.products = @ \cup {row}]

\* INSERT INTO products (name, price): id from the serial (consumed even
\* when the row is rejected), name NOT NULL UNIQUE, price NOT NULL.
InsertProduct(t, name, price, time) ==
    LET id == t.db.productsSeq
        taken == [t EXCEPT !.db.productsSeq = id + 1]
        row == [id |-> id, name |-> name, price |-> price,
                createdAt |-> time, updatedAt |-> time]
    IN  IF ~t.ok THEN t
        ELSE IF price = Absent \/ \E p \in t.db.products : p.name = name
        THEN Failed(taken)
        ELSE [taken EXCEPT !.db.products = @ \cup {row}]

\* (mutant) products.name without its UNIQUE constraint on UPDATE
UpdateProductNoUnique(t, id, name, price, time) ==
    LET new(p) == [p EXCEPT !.name = IF name # <<>> THEN name ELSE @,
                            !.price = IF price # Absent /\ price # 0
                                      THEN price ELSE @,
                            !.updatedAt = time]
    IN  IF ~t.ok THEN t
        ELSE [t EXCEPT !.db.products =
                { p \in @ : p.id # id } \cup { new(p) : p \in { p \in @ : p.id = id } }]

\* UPDATE products SET [name], [price], updated_at WHERE id = id
\* (name and price are set only when truthy)
UpdateProduct(t, id, name, price, time) ==
    LET setName == name # <<>>
        setPrice == price # Absent /\ price # 0
        new(p) == [p EXCEPT !.name = IF setName THEN name ELSE @,
                            !.price = IF setPrice THEN price ELSE @,
                            !.updatedAt = time]
        hit == { p \in t.db.products : p.id = id }
        rest == t.db.products \ hit
    IN  IF ~t.ok THEN t
        ELSE IF \E p \in hit : \E q \in rest : new(p).name = q.name
        THEN Failed(t)
        ELSE [t EXCEPT !.db.products = rest \cup { new(p) : p \in hit }]

\* (mutant) an empty list of values is accepted and inserts nothing
InsertProductCategoriesOrNone(t, productId, ids) ==
    LET rows == { [productId |-> productId, categoryId |-> ids[i]] :
                    i \in DOMAIN ids }
        duplicate == \/ \E i, j \in DOMAIN ids : i # j /\ ids[i] = ids[j]
                     \/ rows \cap t.db.productCategories # {}
        dangling == \/ ~ \E p \in t.db.products : p.id = productId
                    \/ \E i \in DOMAIN ids :
                         ~ \E c \in t.db.categories : c.id = ids[i]
    IN  IF ~t.ok THEN t
        ELSE IF ids = <<>> THEN t
        ELSE IF duplicate \/ dangling THEN Failed(t)
        ELSE [t EXCEPT !.db.productCategories = @ \cup rows]

\* INSERT INTO product_categories VALUES (productId, ids[1]), ...:
\* the query builder throws on an empty list; the composite primary key
\* and the two foreign keys reject the whole statement.
InsertProductCategories(t, productId, ids) ==
    LET rows == { [productId |-> productId, categoryId |-> ids[i]] :
                    i \in DOMAIN ids }
        duplicate == \/ \E i, j \in DOMAIN ids : i # j /\ ids[i] = ids[j]
                     \/ rows \cap t.db.productCategories # {}
        dangling == \/ ~ \E p \in t.db.products : p.id = productId
                    \/ \E i \in DOMAIN ids :
                         ~ \E c \in t.db.categories : c.id = ids[i]
    IN  IF ~t.ok THEN t
        ELSE IF ids = <<>> \/ duplicate \/ dangling THEN Failed(t)
        ELSE [t EXCEPT !.db.productCategories = @ \cup rows]

\* (mutant) the old relations are kept: merge, not replace
KeepProductCategories(t, productId) == t

\* DELETE FROM product_categories WHERE product_id = productId
DeleteProductCategories(t, productId) ==
    IF ~t.ok THEN t
    ELSE [t EXCEPT !.db.productCategories =
                     { r \in @ : r.productId # productId }]

\* (mutant) no rollback: what the statements wrote before the failure stays
TransactionNoRollback(db, t) == [ok |-> t.ok, db |-> t.db]

\* db.transaction(...): COMMIT when every statement succeeded, ROLLBACK
\* otherwise. A rollback does not give back the serial's values.
Transaction(db, t) ==
    IF t.ok THEN [ok |-> TRUE, db |-> t.db]
    ELSE [ok |-> FALSE, db |-> [db EXCEPT !.productsSeq = t.db.productsSeq]]

\* SELECT id FROM categories WHERE id IN ids, as an array in id order
RECURSIVE Ascending(_)
Ascending(S) ==
    IF S = {} THEN <<>>
    ELSE LET m == CHOOSE x \in S : \A y \in S : x <= y
         IN  <<m>> \o Ascending(S \ {m})

SelectCategoryIds(db, ids) ==
    Ascending({ c.id : c \in { c \in db.categories : c.id \in Range(ids) } })

\* the categories of a product, as the handlers re-fetch them for their
\* response: product_categories JOIN products JOIN categories. The query
\* has no ORDER BY; the rows are kept as a set.
ProductWithCategories(db, id) ==
    { [id |-> c.id, name |-> reformatCategoryNameResponse(c.name)] :
        c \in { c \in db.categories :
                  /\ [productId |-> id, categoryId |-> c.id]
                        \in db.productCategories
                  /\ \E p \in db.products : p.id = id } }

\* ----------------------------------------------------------- responses
NoData == <<>>

Reply(db, status, message, data) ==
    [db |-> db, res |-> [status |-> status, message |-> message, data |-> data]]

\* A rejected transaction is not caught by the handler: the request fails
\* without a JSON body of the handler's making.
Uncaught(db) == Reply(db, 500, "uncaught", NoData)

\* ---------------------------------------------------------- getProducts
\* rows of product_categories whose categoryId is in categoryIds
FilterRows(db, categoryIds) ==
    { r \in db.productCategories : r.categoryId \in Range(categoryIds) }

\* countMap: productId -> Set of the matched categoryIds
CountMap(rows) ==
    [p \in { r.productId : r \in rows } |->
        { r.categoryId : r \in { q \in rows : q.productId = p } }]

\* (mutant) products that matched some required category
MatchingProductIdsAny(rows, categoryIds) ==
    LET countMap == CountMap(rows)
    IN  { p \in DOMAIN countMap :
            \E i \in DOMAIN categoryIds : categoryIds[i] \in countMap[p] }

\* products that matched all required categories
MatchingProductIds(rows, categoryIds) ==
    LET countMap == CountMap(rows)
    IN  { p \in DOMAIN countMap :
            \A i \in DOMAIN categoryIds : categoryIds[i] \in countMap[p] }

\* The query builder keeps one WHERE condition: .where(c) stores c in place
\* of the condition stored before.
NoWhere == [kind |-> "none"]

Where(query, condition) == condition

BaseQueryWhere(categoryIds, matchingProductIds, productNameSearch) ==
    LET q0 == NoWhere
        q1 == IF categoryIds # <<>>
              THEN Where(q0, [kind |-> "inArray", ids |-> matchingProductIds])
              ELSE q0
        q2 == IF productNameSearch # <<>>
              THEN Where(q1, [kind |-> "ilike", search |-> productNameSearch])
              ELSE q1
    IN  q2

Satisfies(product, where) ==
    CASE where.kind = "none" -> TRUE
      [] where.kind = "inArray" -> product.id \in where.ids
      [] where.kind = "ilike" -> ilike(product.name, where.search)

\* products INNER JOIN product_categories INNER JOIN categories WHERE ...
JoinRows(db, where) ==
    UNION { { [product |-> p, category |-> c] :
                c \in { c \in db.categories :
                          [productId |-> p.id, categoryId |-> c.id]
                              \in db.productCategories } } :
            p \in { p \in db.products : Satisfies(p, where) } }

\* ORDER BY products.created_at DESC leaves the order of rows with equal
\* created_at to the database: RowOrders are the orders the model draws
\* from for them.
RowOrders == { "productMajor", "categoryMajor",
               "productMajorDesc", "categoryMajorDesc" }

TieBefore(r, q, order) ==
    LET pm(a, b) == \/ a.product.id < b.product.id
                    \/ a.product.id = b.product.id
                       /\ a.category.id < b.category.id
        cm(a, b) == \/ a.category.id < b.category.id
                    \/ a.category.id = b.category.id
                       /\ a.product.id < b.product.id
    IN  CASE order = "productMajor" -> pm(r, q)
          [] order = "categoryMajor" -> cm(r, q)
          [] order = "productMajorDesc" -> pm(q, r)
          [] order = "categoryMajorDesc" -> cm(q, r)

Before(r, q, order) ==
    \/ r.product.createdAt > q.product.createdAt
    \/ r.product.createdAt = q.product.createdAt /\ TieBefore(r, q, order)

RECURSIVE OrderBy(_, _)
OrderBy(rows, order) ==
    IF rows = {} THEN <<>>
    ELSE LET first == CHOOSE r \in rows :
                        \A q \in rows \ {r} : Before(r, q, order)
         IN  <<first>> \o OrderBy(rows \ {first}, order)

\* (mutant) a new record whenever the product differs from the row before
RECURSIVE GroupRowsAdjacent(_, _)
GroupRowsAdjacent(rows, productMap) ==
    IF rows = <<>> THEN productMap
    ELSE LET product == Head(rows).product
             category == Head(rows).category
             n == Len(productMap)
             has == n > 0 /\ productMap[n].id = product.id
             set == IF has THEN productMap
                    ELSE Append(productMap,
                                [id |-> product.id, name |-> product.name,
                                 price |-> product.price, categories |-> <<>>])
             pushed == [set EXCEPT ![Len(set)].categories =
                          Append(@, [id |-> category.id,
                                     name |-> reformatCategoryNameResponse(
                                                category.name)])]
         IN  GroupRowsAdjacent(Tail(rows), pushed)

\* productMap: one record per product id, in the order the ids first occur
\* in the rows, each row's category pushed to its product's record
RECURSIVE GroupRows(_, _)
GroupRows(rows, productMap) ==
    IF rows = <<>> THEN productMap
    ELSE LET product == Head(rows).product
             category == Head(rows).category
             has == \E i \in DOMAIN productMap : productMap[i].id = product.id
             set == IF has THEN productMap
                    ELSE Append(productMap,
                                [id |-> product.id, name |-> product.name,
                                 price |-> product.price, categories |-> <<>>])
             pushed == [i \in DOMAIN set |->
                          IF set[i].id = product.id
                          THEN [set[i] EXCEPT !.categories =
                                  Append(@, [id |-> category.id,
                                             name |-> reformatCategoryNameResponse(
                                                        category.name)])]
                          ELSE set[i]]
         IN  GroupRows(Tail(rows), pushed)

\* categoryIds is the parsed query parameter, an array of ids; <<>> is the
\* empty or missing array. (The handler's second query, newQuery, is read
\* and never used.)
getProducts(db, categoryIds, productNameSearch, order) ==
    LET matchingProductIds ==
            IF categoryIds # <<>>
            THEN MatchingProductIds(FilterRows(db, categoryIds), categoryIds)
            ELSE {}
        where == BaseQueryWhere(categoryIds, matchingProductIds,
                                productNameSearch)
        rows == OrderBy(JoinRows(db, where), order)
    IN  IF categoryIds # <<>> /\ matchingProductIds = {}
        THEN Reply(db, 200, "No products found", <<>>)
        ELSE Reply(db, 200, "Products fetched successfully",
                   GroupRows(rows, <<>>))

\* ----------------------------------------------------------- addProduct
\* (mutant) the name is normalised before the lookup, as category names are
SelectProductsByNameLowered(db, name) ==
    { p \in db.products : p.name = toLowerCase(name) }

\* SELECT * FROM products WHERE name = name
SelectProductsByName(db, name) == { p \in db.products : p.name = name }

\* (mutant) the WHERE is lost: every row is returned
SelectProductsByIdAll(db, id) == db.products

\* SELECT * FROM products WHERE id = id
SelectProductsById(db, id) == { p \in db.products : p.id = id }

AddProductTransaction(db, time, name, price, categoryIds) ==
    Transaction(db,
        InsertProductCategories(InsertProduct(Begin(db), name, price, time),
                                db.productsSeq, categoryIds))

\* An empty categoryIds selects no category (inArray over no values is
\* false) and is answered "Category not found" before the transaction.
addProduct(db, time, name, price, categoryIds) ==
    LET existingProduct == SelectProductsByName(db, name)
        existingCategories == SelectCategoryIds(db, categoryIds)
        tx == AddProductTransaction(db, time, name, price, categoryIds)
        \* the rows INSERT ... RETURNING gave: the handler takes the first
        newProduct == SelectProductsById(tx.db, db.productsSeq)
    IN  IF existingProduct # {}
        THEN Reply(db, 400, "Product already exists", NoData)
        ELSE IF Len(existingCategories) = 0
        THEN Reply(db, 400, "Category not found", NoData)
        ELSE IF ~tx.ok THEN Uncaught(tx.db)
        ELSE Reply(tx.db, 200, "Product added successfully",
                   [product |-> newProduct,
                    categories |-> ProductWithCategories(tx.db, db.productsSeq)])

\* ---------------------------------------------------------- editProduct
\* (mutant) the relations are replaced whether or not a list was given
EditProductTransactionAlwaysReplace(db, time, id, name, price, categoryIds) ==
    LET updated == UpdateProduct(Begin(db), id, name, price, time)
        validCategoryIds == SelectCategoryIds(updated.db, categoryIds)
        deleted == DeleteProductCategories(updated, id)
    IN  Transaction(db,
            IF categoryIds # <<>>
            THEN InsertProductCategories(deleted, id, validCategoryIds)
            ELSE deleted)

EditProductTransaction(db, time, id, name, price, categoryIds) ==
    LET updated == UpdateProduct(Begin(db), id, name, price, time)
        validCategoryIds == SelectCategoryIds(updated.db, categoryIds)
    IN  Transaction(db,
            IF categoryIds # <<>>
            THEN InsertProductCategories(
                     DeleteProductCategories(updated, id), id, validCategoryIds)
            ELSE updated)

editProduct(db, time, id, name, price, categoryIds) ==
    LET existingProduct == SelectProductsById(db, id)
        tx == EditProductTransaction(db, time, id, name, price, categoryIds)
        \* the rows UPDATE ... RETURNING gave: the handler takes the first
        updatedProduct == { p \in tx.db.products : p.id = id }
    IN  IF existingProduct = {}
        THEN Reply(db, 404, "Product not found", NoData)
        ELSE IF ~tx.ok THEN Uncaught(tx.db)
        ELSE Reply(tx.db, 200, "Product updated successfully",
                   [product |-> updatedProduct,
                    categories |-> ProductWithCategories(tx.db, id)])

\* -------------------------------------------------------- deleteProduct
\* (mutant) the foreign key does not cascade: the relations stay
DeleteProductRowOnly(db, id) ==
    [db EXCEPT !.products = { p \in @ : p.id # id }]

\* DELETE FROM products WHERE id = id RETURNING *; the foreign key of
\* product_categories.product_id is ON DELETE CASCADE.
DeleteProductRow(db, id) ==
    [db EXCEPT !.products = { p \in @ : p.id # id },
               !.productCategories = { r \in @ : r.productId # id }]

deleteProduct(db, id) ==
    LET existing == SelectProductsById(db, id)
    IN  IF existing = {}
        THEN Reply(db, 404, "Product not found", NoData)
        ELSE Reply(DeleteProductRow(db, id), 200,
                   "Product deleted successfully", existing)

\* ---------------------------------------------------------- addCategory
\* SELECT * FROM categories WHERE name = name
SelectCategoriesByName(db, name) == { c \in db.categories : c.name = name }

\* INSERT INTO categories (name) RETURNING id, name: one statement, its own
\* transaction; id from the serial, name UNIQUE.
InsertCategory(db, name) ==
    LET id == db.categoriesSeq
        taken == [db EXCEPT !.categoriesSeq = id + 1]
    IN  IF \E c \in db.categories : c.name = name
        THEN [ok |-> FALSE, db |-> taken]
        ELSE [ok |-> TRUE,
              db |-> [taken EXCEPT !.categories =
                                     @ \cup { [id |-> id, name |-> name] }]]

CategoryResponse(db, id) ==
    { [id |-> c.id, name |-> reformatCategoryNameResponse(c.name)] :
        c \in { c \in db.categories : c.id = id } }

addCategory(db, name) ==
    LET formattedCategoryName == reformatCategoryNameInput(name)
        existingCategory == SelectCategoriesByName(db, formattedCategoryName)
        inserted == InsertCategory(db, formattedCategoryName)
    IN  IF name = <<>>
        THEN Reply(db, 400, "Name is required", NoData)
        ELSE IF existingCategory # {}
        THEN Reply(db, 400, "Category already exists", NoData)
        ELSE IF ~inserted.ok THEN Uncaught(inserted.db)
        ELSE Reply(inserted.db, 200, "Category added successfully",
                   CategoryResponse(inserted.db, db.categoriesSeq))

\* ------------------------------------------------- the state machine
Idle == [op |-> "idle"]

\* the clients whose requests may be in flight together
Clients == { 1, 2 }

NoRequest == [op |-> "none"]

\* last keeps the request's op, id, categoryIds and name search beside the
\* response; the name and price of a write are read from the tables.
Request(op, id, categoryIds, search, res) ==
    [op |-> op, id |-> id, categoryIds |-> categoryIds, search |-> search,
     status |-> res.status, message |-> res.message, data |-> res.data]

Commit(db) ==
    /\ products' = db.products
    /\ categories' = db.categories
    /\ productCategories' = db.productCategories
    /\ productsSeq' = db.productsSeq
    /\ categoriesSeq' = db.categoriesSeq

Init ==
    /\ products = {}
    /\ categories = {}
    /\ productCategories = {}
    /\ productsSeq = 1
    /\ categoriesSeq = 1
    /\ now = 0
    /\ last = Idle
    /\ pending = [c \in Clients |-> NoRequest]

GetProducts(categoryIds, productNameSearch, order) ==
    /\ last = Idle
    /\ LET r == getProducts(Db, categoryIds, productNameSearch, order)
       IN  last' = Request("getProducts", 0, categoryIds,
                           productNameSearch, r.res)
    /\ UNCHANGED <<store, now, pending>>

AddProduct(name, price, categoryIds) ==
    /\ last = Idle
    /\ productsSeq <= MaxProductId
    /\ LET r == addProduct(Db, now, name, price, categoryIds)
       IN  /\ Commit(r.db)
           /\ last' = Request("addProduct", 0, categoryIds, <<>>, r.res)
    /\ UNCHANGED <<now, pending>>

EditProduct(id, name, price, categoryIds) ==
    /\ last = Idle
    /\ LET r == editProduct(Db, now, id, name, price, categoryIds)
       IN  /\ Commit(r.db)
           /\ last' = Request("editProduct", id, categoryIds, <<>>, r.res)
    /\ UNCHANGED <<now, pending>>

DeleteProduct(id) ==
    /\ last = Idle
    /\ LET r == deleteProduct(Db, id)
       IN  /\ Commit(r.db)
           /\ last' = Request("deleteProduct", id, <<>>, <<>>, r.res)
    /\ UNCHANGED <<now, pending>>

AddCategory(name) ==
    /\ last = Idle
    /\ LET r == addCategory(Db, name)
       IN  /\ Commit(r.db)
           /\ last' = Request("addCategory", 0, <<>>, <<>>, r.res)
    /\ UNCHANGED <<now, pending>>

\* the response has been sent
Respond ==
    /\ last # Idle
    /\ last' = Idle
    /\ UNCHANGED <<store, now, pending>>

Tick ==
    /\ last = Idle
    /\ now < MaxTime
    /\ now' = now + 1
    /\ UNCHANGED <<store, last, pending>>

Next ==
    \/ \E c \in CategoryIdLists, s \in SearchInputs, o \in RowOrders :
          GetProducts(c, s, o)
    \/ \E n \in ProductNames, p \in PriceInputs, c \in CategoryIdLists :
          AddProduct(n, p, c)
    \/ \E i \in ProductIdInputs, n \in NameInputs, p \in PriceInputs,
          c \in CategoryIdLists : EditProduct(i, n, p, c)
    \/ \E i \in ProductIdInputs : DeleteProduct(i)
    \/ \E n \in CategoryNameInputs : AddCategory(n)
    \/ Respond
    \/ Tick

Spec == Init /\ [][Next]_vars

\* ------------------------------------------- requests in flight together
\* Each handler is cut at its awaits: a step is one round trip to the
\* database (a SELECT, a single statement, or a whole transaction, which
\* takes effect at its commit). Steps of different clients interleave.
ConcPriceInputs == { 5 }
ConcCategoryIdLists == { <<1>> }
ConcEditCategoryIdLists == { <<>>, <<1>> }
ConcCategoryNameInputs == { <<"e">> }

Running(op, pc, id, name, price, categoryIds) ==
    [op |-> op, pc |-> pc, id |-> id, name |-> name, price |-> price,
     categoryIds |-> categoryIds]

Answer(req, res) ==
    [op |-> req.op, pc |-> "done", id |-> req.id, name |-> req.name,
     price |-> req.price, categoryIds |-> req.categoryIds,
     status |-> res.status, message |-> res.message, data |-> res.data]

At(c, op, pc) == pending[c].op = op /\ pending[c].pc = pc

Goto(c, pc) == pending' = [pending EXCEPT ![c].pc = pc]

Answers(c, r) == pending' = [pending EXCEPT ![c] = Answer(pending[c], r.res)]

\* addProduct: SELECT by name
AddProductStart(c, name, price, categoryIds) ==
    /\ pending[c] = NoRequest
    /\ productsSeq <= MaxProductId
    /\ LET req == Running("addProduct", "categories", 0, name, price,
                          categoryIds)
       IN  pending' = [pending EXCEPT ![c] =
              IF SelectProductsByName(Db, name) # {}
              THEN Answer(req, Reply(Db, 400, "Product already exists",
                                     NoData).res)
              ELSE req]
    /\ UNCHANGED <<store, now, last>>

\* addProduct: SELECT the categories
AddProductCategories(c) ==
    /\ At(c, "addProduct", "categories")
    /\ IF Len(SelectCategoryIds(Db, pending[c].categoryIds)) = 0
       THEN Answers(c, Reply(Db, 400, "Category not found", NoData))
       ELSE Goto(c, "transaction")
    /\ UNCHANGED <<store, now, last>>

\* addProduct: the transaction
AddProductCommit(c) ==
    /\ At(c, "addProduct", "transaction")
    /\ LET req == pending[c]
           tx == AddProductTransaction(Db, now, req.name, req.price,
                                       req.categoryIds)
       IN  /\ Commit(tx.db)
           /\ IF tx.ok
              THEN pending' = [pending EXCEPT ![c].pc = "refetch",
                                              ![c].id = productsSeq]
              ELSE Answers(c, Uncaught(tx.db))
    /\ UNCHANGED <<now, last>>

\* addProduct: SELECT the product's categories, and the response
AddProductRefetch(c) ==
    /\ At(c, "addProduct", "refetch")
    /\ Answers(c, Reply(Db, 200, "Product added successfully",
                        [product |-> {},
                         categories |-> ProductWithCategories(Db, pending[c].id)]))
    /\ UNCHANGED <<store, now, last>>

\* editProduct: SELECT by id
EditProductStart(c, id, name, price, categoryIds) ==
    /\ pending[c] = NoRequest
    /\ LET req == Running("editProduct", "transaction", id, name, price,
                          categoryIds)
       IN  pending' = [pending EXCEPT ![c] =
              IF SelectProductsById(Db, id) = {}
              THEN Answer(req, Reply(Db, 404, "Product not found", NoData).res)
              ELSE req]
    /\ UNCHANGED <<store, now, last>>

\* editProduct: the transaction
EditProductCommit(c) ==
    /\ At(c, "editProduct", "transaction")
    /\ LET req == pending[c]
           tx == EditProductTransaction(Db, now, req.id, req.name, req.price,
                                        req.categoryIds)
       IN  /\ Commit(tx.db)
           /\ IF tx.ok THEN Goto(c, "refetch") ELSE Answers(c, Uncaught(tx.db))
    /\ UNCHANGED <<now, last>>

\* editProduct: SELECT the product's categories, and the response
EditProductRefetch(c) ==
    /\ At(c, "editProduct", "refetch")
    /\ Answers(c, Reply(Db, 200, "Product updated successfully",
                        [product |-> {},
                         categories |-> ProductWithCategories(Db, pending[c].id)]))
    /\ UNCHANGED <<store, now, last>>

\* deleteProduct: SELECT by id
DeleteProductStart(c, id) ==
    /\ pending[c] = NoRequest
    /\ LET req == Running("deleteProduct", "delete", id, <<>>, Absent, <<>>)
       IN  pending' = [pending EXCEPT ![c] =
              IF SelectProductsById(Db, id) = {}
              THEN Answer(req, Reply(Db, 404, "Product not found", NoData).res)
              ELSE req]
    /\ UNCHANGED <<store, now, last>>

\* deleteProduct: DELETE ... RETURNING, and the response
DeleteProductCommit(c) ==
    /\ At(c, "deleteProduct", "delete")
    /\ Commit(DeleteProductRow(Db, pending[c].id))
    /\ Answers(c, Reply(Db, 200, "Product deleted successfully",
                        SelectProductsById(Db, pending[c].id)))
    /\ UNCHANGED <<now, last>>

\* addCategory: SELECT by name
AddCategoryStart(c, name) ==
    /\ pending[c] = NoRequest
    /\ LET req == Running("addCategory", "insert", 0,
                          reformatCategoryNameInput(name), Absent, <<>>)
       IN  pending' = [pending EXCEPT ![c] =
              IF name = <<>>
              THEN Answer(req, Reply(Db, 400, "Name is required", NoData).res)
              ELSE IF SelectCategoriesByName(Db, req.name) # {}
              THEN Answer(req, Reply(Db, 400, "Category already exists",
                                     NoData).res)
              ELSE req]
    /\ UNCHANGED <<store, now, last>>

\* addCategory: INSERT, and the response
AddCategoryCommit(c) ==
    /\ At(c, "addCategory", "insert")
    /\ LET inserted == InsertCategory(Db, pending[c].name)
       IN  /\ Commit(inserted.db)
           /\ IF inserted.ok
              THEN Answers(c, Reply(inserted.db, 200,
                                    "Category added successfully",
                                    CategoryResponse(inserted.db, categoriesSeq)))
              ELSE Answers(c, Uncaught(inserted.db))
    /\ UNCHANGED <<now, last>>

\* the response has been sent
Finish(c) ==
    /\ pending[c].op # "none"
    /\ pending[c].pc = "done"
    /\ pending' = [pending EXCEPT ![c] = NoRequest]
    /\ UNCHANGED <<store, now, last>>

NextConc ==
    \E c \in Clients :
       \/ \E n \in ProductNames, p \in ConcPriceInputs,
             ids \in ConcCategoryIdLists : AddProductStart(c, n, p, ids)
       \/ AddProductCategories(c)
       \/ AddProductCommit(c)
       \/ AddProductRefetch(c)
       \/ \E i \in ProductIdInputs, n \in NameInputs,
             ids \in ConcEditCategoryIdLists :
             EditProductStart(c, i, n, Absent, ids)
       \/ EditProductCommit(c)
       \/ EditProductRefetch(c)
       \/ \E i \in ProductIdInputs : DeleteProductStart(c, i)
       \/ DeleteProductCommit(c)
       \/ \E n \in ConcCategoryNameInputs : AddCategoryStart(c, n)
       \/ AddCategoryCommit(c)
       \/ Finish(c)

SpecConc == Init /\ [][NextConc]_vars

\* ================================================================ claims
\* what a response and the tables say, stated without the handlers' code
DataIds(data) == { data[i].id : i \in DOMAIN data }

RecordsOf(data, id) == { i \in DOMAIN data : data[i].id = id }

CategoriesOf(id) ==
    { r.categoryId : r \in { r \in productCategories : r.productId = id } }

HasEvery(id, ids) ==
    \A c \in Range(ids) :
        [productId |-> id, categoryId |-> c] \in productCategories

Contains(s, sub) ==
    \E i \in 0 .. (Len(s) - Len(sub)) : SubSeq(s, i + 1, i + Len(sub)) = sub

Answered(op) == last.op = op

\* C1: getProducts with a non-empty list C of category ids and no name
\* filter returns a record for product P exactly when P has an association
\* row (P, c) for every c in C; only the set of ids in C matters, so listing
\* an id twice changes nothing.
C1_AndFilter ==
    (Answered("getProducts") /\ last.categoryIds # <<>> /\ last.search = <<>>)
        => DataIds(last.data)
             = { p.id : p \in { p \in products : HasEvery(p.id, last.categoryIds) } }

\* C1 witness: a filter on two ids (equal or different) returned some
\* product and left another one out.
C1_Witness ==
    /\ Answered("getProducts")
    /\ Len(last.categoryIds) = 2
    /\ last.search = <<>>
    /\ DataIds(last.data) # {}
    /\ \E p \in products : p.id \notin DataIds(last.data)

\* C2: after a successful editProduct of P with a non-empty categoryIds
\* list L, P's associations are exactly the ids of L that name existing
\* categories, and getProducts filtered by any id outside L does not
\* return P.
C2_EditReplaces ==
    (Answered("editProduct") /\ last.status = 200 /\ last.categoryIds # <<>>)
        => /\ CategoriesOf(last.id)
                = { c \in Range(last.categoryIds) :
                      \E k \in categories : k.id = c }
           /\ \A c \in CategoryIdInputs \ Range(last.categoryIds),
                 o \in RowOrders :
                 last.id \notin DataIds(getProducts(Db, <<c>>, <<>>, o).res.data)

\* C2 witness: an edit with a category list succeeded and left the product
\* outside a category that exists.
C2_Witness ==
    /\ Answered("editProduct")
    /\ last.status = 200
    /\ last.categoryIds # <<>>
    /\ \E k \in categories : k.id \notin CategoriesOf(last.id)

\* C9 (as claimed): getProducts without categoryIds returns one record for
\* every product row when there is no name filter, and with a name filter
\* one record for every product whose name contains the substring, case
\* ignored.
C9_NameFilterClaim ==
    (Answered("getProducts") /\ last.categoryIds = <<>>)
        => \A p \in products :
              Contains(toLowerCase(p.name), toLowerCase(last.search))
                 => Cardinality(RecordsOf(last.data, p.id)) = 1

\* C10: every record of a getProducts response lists each category of its
\* product exactly once and all of them, whatever the filter, and no
\* product id has two records.
C10_FullCategories ==
    Answered("getProducts")
        => \A i \in DOMAIN last.data :
              LET rec == last.data[i]
              IN  /\ \A k, l \in DOMAIN rec.categories :
                        rec.categories[k].id = rec.categories[l].id => k = l
                  /\ { rec.categories[k].id : k \in DOMAIN rec.categories }
                        = CategoriesOf(rec.id)
                  /\ RecordsOf(last.data, rec.id) = {i}

\* C10 witness: a filter on one category returned, in one response, a
\* product with two categories and another product.
C10_Witness ==
    /\ Answered("getProducts")
    /\ Len(last.categoryIds) = 1
    /\ Len(last.data) = 2
    /\ \E i \in DOMAIN last.data : Len(last.data[i].categories) = 2

ProductIds == { p.id : p \in products }

\* C3: a successful deleteProduct of P removes P's product row and every
\* association row of P and nothing else, and no getProducts, whatever its
\* filters, returns P afterwards: right after the delete none does, every
\* response holds stored products only, and the serial never hands P's id
\* out again.
C3_DeleteCascades ==
    /\ [][(last = Idle /\ last'.op = "deleteProduct" /\ last'.status = 200)
            => /\ last'.id \in ProductIds
               /\ products' = { p \in products : p.id # last'.id }
               /\ productCategories'
                    = { r \in productCategories : r.productId # last'.id }
               /\ categories' = categories
               /\ \A c \in CategoryIdLists, s \in SearchInputs, o \in RowOrders :
                     last'.id \notin DataIds(getProducts(Db', c, s, o).res.data)
         ]_vars
    /\ [][\A p \in products' :
             p.id \in ProductIds \/ (p.id >= productsSeq /\ p.id < productsSeq')
         ]_vars
    /\ [](/\ \A p \in products : p.id < productsSeq
          /\ Answered("getProducts") => DataIds(last.data) \subseteq ProductIds)

\* C3 witness: a product was deleted while another product and its
\* associations stay.
C3_Witness ==
    /\ Answered("deleteProduct")
    /\ last.status = 200
    /\ products # {}
    /\ productCategories # {}

\* C4: an addProduct or editProduct whose transaction fails leaves the three
\* tables as they were before the request.
C4_Atomic ==
    [][(/\ last = Idle
        /\ last'.op \in { "addProduct", "editProduct" }
        /\ last'.status # 200)
          => UNCHANGED tables]_vars

\* C4 witness: an edit whose category ids all name no category failed
\* after its transaction had deleted the old associations, and the product
\* still has them.
C4_Witness ==
    /\ Answered("editProduct")
    /\ last.status = 500
    /\ last.categoryIds # <<>>
    /\ \A c \in Range(last.categoryIds) : \A k \in categories : k.id # c
    /\ CategoriesOf(last.id) # {}

\* C5: addProduct with the name of an existing product (exact match)
\* answers 400 "Product already exists" and changes nothing.
C5_DuplicateName ==
    [][(last = Idle /\ last'.op = "addProduct")
          => \A n \in ProductNames, p \in PriceInputs, c \in CategoryIdLists :
                (AddProduct(n, p, c) /\ \E q \in products : q.name = n)
                   => /\ last'.status = 400
                      /\ last'.message = "Product already exists"
                      /\ UNCHANGED store]_vars

\* C5 witness: an addProduct was answered "Product already exists".
C5_Witness ==
    /\ Answered("addProduct")
    /\ last.status = 400
    /\ last.message = "Product already exists"

\* C6: editProduct with an id that matches no product answers 404
\* "Product not found" and changes nothing, whatever else it carries.
C6_EditMissing ==
    [][(last = Idle /\ last'.op = "editProduct" /\ last'.id \notin ProductIds)
          => /\ last'.status = 404
             /\ last'.message = "Product not found"
             /\ UNCHANGED store]_vars

\* C6 witness: an editProduct with a category list for a missing id was
\* answered 404 while another product is stored.
C6_Witness ==
    /\ Answered("editProduct")
    /\ last.status = 404
    /\ last.categoryIds # <<>>
    /\ products # {}

\* C8 (as claimed): addProduct with a new name (and a price, and no id
\* listed twice) answers 400 "Category not found" exactly when no supplied
\* id names an existing category; when some supplied id does, it succeeds
\* and inserts the product row and one association row per supplied id.
C8_PartialValidityClaim ==
    [][(last = Idle /\ last'.op = "addProduct")
          => \A n \in ProductNames, p \in PriceInputs \ { Absent },
                c \in CategoryIdLists \ { <<>> } :
                (/\ AddProduct(n, p, c)
                 /\ \A q \in products : q.name # n
                 /\ \A i, j \in DOMAIN c : c[i] = c[j] => i = j)
                   => LET some == \E k \in categories : k.id \in Range(c)
                      IN  /\ (last'.status = 400
                              /\ last'.message = "Category not found") <=> ~some
                          /\ some =>
                               /\ last'.status = 200
                               /\ \E row \in products' \ products :
                                     /\ row.name = n
                                     /\ { r.categoryId :
                                            r \in { r \in productCategories' :
                                                      r.productId = row.id } }
                                          = Range(c)]_vars

\* C7: no two product rows have the same name, in every state the requests
\* reach, whatever the interleaving of their steps.
C7_UniqueNames ==
    \A p, q \in products : p.name = q.name => p.id = q.id

\* C7 witness: an editProduct that renames a product to the name of another
\* stored product has run its transaction, which failed, and both products
\* are stored under their names.
C7_Witness ==
    \E c \in Clients :
       /\ At(c, "editProduct", "done")
       /\ pending[c].status = 500
       /\ pending[c].categoryIds = <<>>
       /\ \E p, q \in products :
             /\ p.id = pending[c].id
             /\ q.id # p.id
             /\ q.name = pending[c].name

\* the row client c's addProduct inserted is stored under the request's name
Committed(c) ==
    /\ pending[c].op = "addProduct"
    /\ pending[c].pc \in { "refetch", "done" }
    /\ \E p \in products : p.id = pending[c].id /\ p.name = pending[c].name

\* client d's addProduct found no product of its name and no row of its own
\* is stored yet, while client c's addProduct for the same name has
\* committed its row: both passed the name check before either committed.
Raced(c, d) ==
    /\ c # d
    /\ Committed(c)
    /\ At(d, "addProduct", "transaction")
    /\ pending[d].name = pending[c].name

\* C11: when two addProduct requests for the same new name have both passed
\* the name check before either committed, at most one of them commits a
\* product row: the transaction of the other fails, leaves the tables as
\* they are, and its request ends as an uncaught failure, not with 400
\* "Product already exists".
C11_AddRace ==
    /\ [][\A c, d \in Clients :
             (Raced(c, d) /\ AddProductCommit(d))
                => /\ pending'[d].pc = "done"
                   /\ pending'[d].status = 500
                   /\ pending'[d].message = "uncaught"
                   /\ UNCHANGED tables]_vars
    /\ [](\A c, d \in Clients :
             (c # d /\ Committed(c) /\ Committed(d))
                => pending[c].name # pending[d].name)

\* C11 witness: both requests passed the name check, one has committed its
\* row and the other has ended as an uncaught failure of its transaction.
C11_Witness ==
    \E c, d \in Clients :
       /\ c # d
       /\ Committed(c)
       /\ pending[d].op = "addProduct"
       /\ pending[d].pc = "done"
       /\ pending[d].name = pending[c].name
       /\ pending[d].status = 500
       /\ pending[d].message = "uncaught"

\* C12: a successful editProduct without categoryIds leaves every
\* association row, of the edited product and of the others, as it was; of
\* the product rows it changes the edited one only, and of that row only
\* the name when a non-empty name is given, the price when a price other
\* than 0 is given, and updatedAt, which becomes the current time.
C12_EditFrame ==
    [][(/\ last = Idle
        /\ last'.op = "editProduct"
        /\ last'.status = 200
        /\ last'.categoryIds = <<>>)
          => /\ productCategories' = productCategories
             /\ categories' = categories
             /\ \A i \in ProductIdInputs, n \in NameInputs, p \in PriceInputs :
                   EditProduct(i, n, p, <<>>)
                      => products'
                           = { q \in products : q.id # i }
                             \cup { [id |-> q.id,
                                     name |-> IF n # <<>> THEN n ELSE q.name,
                                     price |-> IF p # Absent /\ p # 0
                                               THEN p ELSE q.price,
                                     createdAt |-> q.createdAt,
                                     updatedAt |-> now] :
                                    q \in { q \in products : q.id = i } }]_vars

\* C12 witness: an edit without categoryIds succeeded at a later time than
\* the product was created, the product keeps two associations, and
\* another product is stored.
C12_Witness ==
    /\ Answered("editProduct")
    /\ last.status = 200
    /\ last.categoryIds = <<>>
    /\ Cardinality(CategoriesOf(last.id)) = 2
    /\ \E q \in products :
          q.id = last.id /\ q.updatedAt = now /\ q.createdAt < now
    /\ \E q \in products : q.id # last.id

\* a search text in which no character has a meaning of its own in a LIKE
\* pattern
Plain(s) == \A i \in DOMAIN s : s[i] \notin { "%", "_", "\\" }

\* C13 (as claimed): getProducts with a non-empty categoryIds list C and a
\* name substring s returns exactly the products that have an association
\* for every id of C and whose name contains s, case ignored; no returned
\* product lacks an association for an id of C.
C13_BothFiltersClaim ==
    (Answered("getProducts") /\ last.categoryIds # <<>> /\ last.search # <<>>)
        => /\ \A id \in DataIds(last.data) : HasEvery(id, last.categoryIds)
           /\ Plain(last.search)
                => DataIds(last.data)
                     = { p.id : p \in { p \in products :
                           /\ HasEvery(p.id, last.categoryIds)
                           /\ Contains(toLowerCase(p.name),
                                       toLowerCase(last.search)) } }

\* C14: in every state the requests reach, every product has at least one
\* association row, and every association row references a stored product
\* and a stored category; so getProducts without filters, whose inner
\* joins drop a product without associations, returns every product.
C14_Associated ==
    /\ \A p \in products : CategoriesOf(p.id) # {}
    /\ \A r \in productCategories :
          /\ \E p \in products : p.id = r.productId
          /\ \E c \in categories : c.id = r.categoryId
    /\ (Answered("getProducts") /\ last.categoryIds = <<>> /\ last.search = <<>>)
          => DataIds(last.data) = ProductIds

\* C14 witness: after a delete has freed an id and an edit has replaced a
\* product's associations, a product and two categories are stored.
C14_Witness ==
    /\ Answered("editProduct")
    /\ last.status = 200
    /\ last.categoryIds # <<>>
    /\ productsSeq > Cardinality(products) + 1
    /\ Cardinality(categories) = 2
    /\ Cardinality(productCategories) >= 2

====
